---------------------------- MODULE Spec2Model ----------------------------
(***************************************************************************)
(* Model of pyci.fanci.detratio.DetRatio: the determinant-ratio overlap    *)
(* and its derivative (src/pyci/fanci/detratio.py).                        *)
(*                                                                         *)
(* Numbers.  Parameters are integers; a computed double is modelled as an  *)
(* exact fraction in lowest terms, [num, den] with den > 0.  A division    *)
(* by zero does not raise in numpy: it yields inf or nan, modelled as a    *)
(* value with den = 0 (num = +1/-1 for inf, 0 for nan).  Rounding of the   *)
(* floating-point operations is not modelled.                              *)
(*                                                                         *)
(* Indices.  Orbitals, matrix numbers, rows, columns and output columns    *)
(* are 0-based as in the source; TLA+ sequences are 1-based, so position   *)
(* p of a numpy array is element p + 1 of the sequence modelling it.       *)
(***************************************************************************)
EXTENDS Integers, Sequences, FiniteSets

VARIABLES engine, pc, call, result

vars == <<engine, pc, call, result>>

-----------------------------------------------------------------------------
(* Bounds of the model *)

MaxCount == 3
MaxBasis == 3
MaxOcc == 2
MaxProj == 1
MaxBatch == 1
MaxSeed == 3

-----------------------------------------------------------------------------
(* Arithmetic of the modelled doubles *)

Abs(n) == IF n < 0 THEN -n ELSE n

Sign(n) == IF n < 0 THEN -1 ELSE IF n = 0 THEN 0 ELSE 1

Min(a, b) == IF a < b THEN a ELSE b

RECURSIVE GCD(_, _)
GCD(a, b) == IF b = 0 THEN a ELSE GCD(b, a % b)

\* p / q as numpy's float64 division computes it: a quotient, or inf / nan
\* (den = 0) when q is zero.
Frac(p, q) ==
    IF q = 0 THEN [num |-> Sign(p), den |-> 0]
    ELSE LET g == GCD(Abs(p), Abs(q))
         IN  [num |-> Sign(q) * (p \div g), den |-> Sign(q) * (q \div g)]

Zero == [num |-> 0, den |-> 1]

One == [num |-> 1, den |-> 1]

Finite(v) == v.den # 0

-----------------------------------------------------------------------------
(* Sequences as numpy arrays *)

\* numpy.arange(n): 0, 1, ..., n - 1
Arange(n) == [p \in 1..n |-> p - 1]

\* a[a != v]
Without(a, v) == SelectSeq(a, LAMBDA e : e # v)

\* numpy.searchsorted(a, v) (side "left"): the number of elements below v
SearchSorted(a, v) == Cardinality({p \in 1..Len(a) : a[p] < v})

\* a with the element at position p (1-based) removed
RemoveAt(a, p) == [q \in 1..(Len(a) - 1) |-> IF q < p THEN a[q] ELSE a[q + 1]]

RECURSIVE ProdSeq(_)
ProdSeq(s) == IF Len(s) = 0 THEN 1 ELSE s[1] * ProdSeq(Tail(s))

-----------------------------------------------------------------------------
(* Configurations and the configuration spaces (FanCI base class) *)

\* The ascending index array of a set of occupied orbitals.
RECURSIVE SortedSeq(_)
SortedSeq(S) ==
    IF S = {} THEN << >>
    ELSE LET lo == CHOOSE e \in S : \A f \in S : e <= f
         IN  <<lo>> \o SortedSeq(S \ {lo})

\* Every configuration: nocc distinct occupied orbitals out of nbasis.
Configs(nbasis, nocc) ==
    {SortedSeq(S) : S \in {T \in SUBSET (0..(nbasis - 1)) : Cardinality(T) = nocc}}

\* The position of a configuration in the enumeration of the full space
\* (its occupation bit string read as a number).
RECURSIVE Rank(_)
Rank(occs) == IF Len(occs) = 0 THEN 0 ELSE 2 ^ occs[1] + Rank(Tail(occs))

RECURSIVE OrderByRank(_)
OrderByRank(C) ==
    IF C = {} THEN << >>
    ELSE LET lo == CHOOSE e \in C : \A f \in C : Rank(e) <= Rank(f)
         IN  <<lo>> \o OrderByRank(C \ {lo})

\* self._sspace: the full space, one ascending index array per configuration.
SSpace(nbasis, nocc) == OrderByRank(Configs(nbasis, nocc))

\* self._pspace: the first nproj configurations of the full space.
PSpace(sspace, nproj) == SubSeq(sspace, 1, Min(nproj, Len(sspace)))

-----------------------------------------------------------------------------
(* DetRatio.__init__ *)

\* occs.searchsorted(arange) for each configuration of a space
SearchSortedData(space, nbasis) ==
    [k \in 1..Len(space) |->
        [p \in 1..nbasis |-> SearchSorted(space[k], Arange(nbasis)[p])]]

DetRatioInit(nbasis, nocc, numerator, denominator, nproj) ==
    LET nmatrices == numerator + denominator
        nparam == nmatrices * nbasis * nocc + 1
        sspace == SSpace(nbasis, nocc)
        sspace_data == SearchSortedData(sspace, nbasis)
    IN  IF nmatrices % 2 # 0
        THEN [status |-> "ValueError"]
        ELSE [status |-> "ok",
              self |-> [nbasis |-> nbasis,
                        nocc_up |-> nocc,
                        nparam |-> nparam,
                        nproj |-> nproj,
                        sspace |-> sspace,
                        pspace |-> PSpace(sspace, nproj),
                        nmatrices |-> nmatrices,
                        numerator |-> numerator,
                        denominator |-> denominator,
                        sspace_data |-> sspace_data,
                        pspace_data |-> SubSeq(sspace_data, 1,
                                               Min(nproj, Len(sspace_data)))]]

\* The engines the constructor builds without raising (a wave function
\* holds at most nbasis occupied orbitals).
Engines ==
    {c.self : c \in
        {d \in {DetRatioInit(nbasis, nocc, numerator, denominator, nproj) :
                    nbasis \in 1..MaxBasis, nocc \in 1..MaxOcc,
                    numerator \in 0..MaxCount, denominator \in 0..MaxCount,
                    nproj \in 1..MaxProj} :
            d.status = "ok" /\ d.self.nocc_up <= d.self.nbasis}}

-----------------------------------------------------------------------------
(* Arguments of the two operations *)

\* The occs_array argument: an index array (one row per configuration) or a
\* string.
IsArray(occs_array) == occs_array.kind = "ndarray"

Ndarray(rows) == [kind |-> "ndarray", rows |-> rows]

Str(s) == [kind |-> "str", s |-> s]

RECURSIVE SeqsUpTo(_, _)
SeqsUpTo(S, n) ==
    IF n = 0 THEN {<< >>}
    ELSE LET shorter == SeqsUpTo(S, n - 1)
         IN  shorter \cup {Append(b, e) : b \in {t \in shorter : Len(t) = n - 1},
                                          e \in S}

OccsArrays(self) ==
    {Ndarray(b) : b \in SeqsUpTo(Configs(self.nbasis, self.nocc_up), MaxBatch)}
        \cup {Str("P"), Str("S"), Str("Q")}

\* Parameter p_t of the vector of a seed.
Param(seed, t) == (((seed + 1) * t * t + seed * t + (t \div 3)) % 5) - 2

\* Parameter vectors: the differentiable parameters (length nparam - 1), and
\* the same followed by an energy entry (length nparam).
ParamVectors(self) ==
    {[t \in 1..len |-> Param(seed, t)] :
        seed \in 0..MaxSeed, len \in {self.nparam - 1, self.nparam}}

-----------------------------------------------------------------------------
(* Matrices and determinants *)

\* A variant of ReshapeOk: a trailing energy entry is tolerated and ignored.
ReshapeOkIgnoringEnergy(x, self) ==
    Len(x) \in {self.nmatrices * self.nbasis * self.nocc_up,
                self.nmatrices * self.nbasis * self.nocc_up + 1}

\* x.reshape(nmatrices, nbasis, nocc_up) succeeds iff the sizes agree.
ReshapeOk(x, self) == Len(x) = self.nmatrices * self.nbasis * self.nocc_up

\* x_mats[m][r][c] of the reshaped parameter vector (row-major).
XMats(x, self) ==
    [m \in 0..(self.nmatrices - 1) |->
        [r \in 0..(self.nbasis - 1) |->
            [c \in 0..(self.nocc_up - 1) |->
                x[m * self.nbasis * self.nocc_up + r * self.nocc_up + c + 1]]]]

\* numpy.linalg.det(mat[rows, :][:, cols]) for index arrays rows and cols of
\* equal length: expansion along the first selected row (an empty matrix has
\* determinant 1).
RECURSIVE Det(_, _, _)
RECURSIVE DetTerms(_, _, _, _)
DetTerms(mat, rows, cols, p) ==
    IF p > Len(cols) THEN 0
    ELSE (IF p % 2 = 1 THEN 1 ELSE -1) * mat[rows[1]][cols[p]]
             * Det(mat, Tail(rows), RemoveAt(cols, p))
         + DetTerms(mat, rows, cols, p + 1)

Det(mat, rows, cols) ==
    IF Len(rows) = 0 THEN 1 ELSE DetTerms(mat, rows, cols, 1)

\* dets = [np.linalg.det(mat[occs]) for mat in x_mats], as dets[m + 1]
Dets(x_mats, self, occs) ==
    [p \in 1..self.nmatrices |-> Det(x_mats[p - 1], occs, Arange(self.nocc_up))]

\* s[:n] and s[n:] of a sequence
Take(s, n) == SubSeq(s, 1, Min(n, Len(s)))

Drop(s, n) == SubSeq(s, Min(n, Len(s)) + 1, Len(s))

-----------------------------------------------------------------------------
(* Selector resolution, common to both operations *)

SelectorOk(occs_array) ==
    IsArray(occs_array) \/ occs_array = Str("P") \/ occs_array = Str("S")

\* The batch of configurations the argument stands for.
Resolve(self, occs_array) ==
    IF IsArray(occs_array) THEN occs_array.rows
    ELSE IF occs_array = Str("P") THEN self.pspace
    ELSE self.sspace

\* A variant of Entry: the parameter vector is reshaped before the selector
\* is looked at.
EntryReshapeFirst(self, x, occs_array) ==
    IF Len(x) # self.nmatrices * self.nbasis * self.nocc_up
    THEN [status |-> "ReshapeError", reshaped |-> TRUE]
    ELSE IF ~SelectorOk(occs_array)
    THEN [status |-> "InvalidSelector", reshaped |-> TRUE]
    ELSE [status |-> "ok", reshaped |-> TRUE]

\* What the entry of either operation does before any loop: the selector is
\* resolved, then the parameter vector is reshaped.
\* reshaped records whether x.reshape was called.
Entry(self, x, occs_array) ==
    IF ~SelectorOk(occs_array)
    THEN [status |-> "InvalidSelector", reshaped |-> FALSE]
    ELSE IF ~ReshapeOk(x, self)
    THEN [status |-> "ReshapeError", reshaped |-> TRUE]
    ELSE [status |-> "ok", reshaped |-> TRUE]

-----------------------------------------------------------------------------
(* DetRatio.compute_overlap *)

OverlapOf(x_mats, self, occs) ==
    LET dets == Dets(x_mats, self, occs)
    IN  Frac(ProdSeq(Take(dets, self.numerator)),
             ProdSeq(Drop(dets, self.numerator)))

ComputeOverlap(self, x, occs_array) ==
    LET entry == Entry(self, x, occs_array)
    IN  IF entry.status # "ok"
        THEN [status |-> entry.status, ovlp |-> << >>, y |-> << >>,
              visits |-> << >>, reshaped |-> entry.reshaped, ndets |-> 0]
        ELSE LET batch == Resolve(self, occs_array)
                 x_mats == XMats(x, self)
             IN  [status |-> "ok",
                  ovlp |-> [k \in 1..Len(batch) |->
                               OverlapOf(x_mats, self, batch[k])],
                  y |-> << >>,
                  visits |-> << >>,
                  reshaped |-> entry.reshaped,
                  ndets |-> Len(batch) * self.nmatrices]

-----------------------------------------------------------------------------
(* DetRatio.compute_overlap_deriv *)

\* A variant of IsEmptyMinor: only the columns are looked at.
IsEmptyMinorColsOnly(rows, cols) == Len(cols) = 0

\* rows.size == cols.size == 0
IsEmptyMinor(rows, cols) == Len(rows) = Len(cols) /\ Len(cols) = 0

\* rows.size != occs.size and cols.size != col_inds.size
IsProperMinor(rows, occs, cols, col_inds) ==
    Len(rows) # Len(occs) /\ Len(cols) # Len(col_inds)

\* A variant of NumSign: the column parity is left out.
NumSignRowOnly(occs, col_inds, r, c) ==
    IF SearchSorted(occs, r) % 2 = 1 THEN -1 ELSE 1

\* The sign of the numerator loop: -1 if searchsorted(occs, r) is odd, times
\* -1 if searchsorted(col_inds, c) is odd.
NumSign(occs, col_inds, r, c) ==
    (IF SearchSorted(occs, r) % 2 = 1 THEN -1 ELSE 1)
        * (IF SearchSorted(col_inds, c) % 2 = 1 THEN -1 ELSE 1)

\* A variant of DenSign: the column parity is taken as in the numerator loop.
DenSignAsNumerator(occs, col_inds, r, c) ==
    (IF SearchSorted(occs, r) % 2 = 1 THEN -1 ELSE 1)
        * (IF SearchSorted(col_inds, c) % 2 = 1 THEN -1 ELSE 1)

\* The sign of the denominator loop: the column parity is taken the other
\* way round.
DenSign(occs, col_inds, r, c) ==
    (IF SearchSorted(occs, r) % 2 = 1 THEN -1 ELSE 1)
        * (IF SearchSorted(col_inds, c) % 2 = 1 THEN 1 ELSE -1)

\* val = sign * n_det_prod * det(minor); val /= d_det_prod * dets[m]
Quotient(sign, n_det_prod, minor, d_det_prod, det_m) ==
    Frac(sign * n_det_prod * minor, d_det_prod * det_m)

\* The body of either loop for the index i.  ctx holds what is fixed for the
\* configuration; sign is the loop's sign rule applied to (r, c).  The result
\* says whether y_row[i] is stored to, left alone, or an index is out of range
\* (y_row[i] past the last column, or x_mats[m] past the last matrix), and
\* whether a minor's determinant was computed.
LoopBody(ctx, i, den) ==
    LET self == ctx.self
        mat_size == self.nbasis * self.nocc_up
        m == i \div mat_size
        n == i % mat_size
        r == n \div self.nocc_up
        c == n % self.nocc_up
        col_inds == Arange(self.nocc_up)
        rows == Without(ctx.occs, r)
        cols == Without(col_inds, c)
        sign == IF den THEN DenSign(ctx.occs, col_inds, r, c)
                       ELSE NumSign(ctx.occs, col_inds, r, c)
    IN  IF IsEmptyMinor(rows, cols)
        THEN IF i < self.nparam - 1
             THEN [kind |-> "store", val |-> One, dets |-> 0]
             ELSE [kind |-> "IndexError", val |-> Zero, dets |-> 0]
        ELSE IF IsProperMinor(rows, ctx.occs, cols, col_inds)
        THEN IF m >= self.nmatrices
             THEN [kind |-> "IndexError", val |-> Zero, dets |-> 0]
             ELSE [kind |-> "store",
                   val |-> Quotient(sign, ctx.n_det_prod,
                                    Det(ctx.x_mats[m], rows, cols),
                                    ctx.d_det_prod, ctx.dets[m + 1]),
                   dets |-> 1]
        ELSE [kind |-> "pass", val |-> Zero, dets |-> 0]

\* range(self._numerator * mat_size)
NumeratorRange(self) ==
    Arange(self.numerator * self.nbasis * self.nocc_up)

\* i = 0 before the numerator loop, the loop's last index after it;
\* j = i + 1; range(j, j + self._numerator * mat_size)
DenominatorRange(self) ==
    LET count == self.numerator * self.nbasis * self.nocc_up
        i == IF count = 0 THEN 0 ELSE count - 1
        j == i + 1
    IN  [p \in 1..count |-> j + p - 1]

\* The iterations of one loop, in order, from position p of its range.  acc is
\* the row so far: y_row, the iterations made, the determinants computed, and
\* whether an IndexError ended the call.
RECURSIVE RunLoop(_, _, _, _, _)
RunLoop(ctx, idxs, den, p, acc) ==
    IF p > Len(idxs) \/ acc.status # "ok" THEN acc
    ELSE LET i == idxs[p]
             step == LoopBody(ctx, i, den)
             seen == Append(acc.visits,
                            [i |-> i,
                             m |-> i \div (ctx.self.nbasis * ctx.self.nocc_up),
                             den |-> den])
         IN  RunLoop(ctx, idxs, den, p + 1,
                 [y_row |-> IF step.kind = "store"
                            THEN [acc.y_row EXCEPT ![i + 1] = step.val]
                            ELSE acc.y_row,
                  visits |-> seen,
                  ndets |-> acc.ndets + step.dets,
                  status |-> IF step.kind = "IndexError" THEN "IndexError"
                             ELSE "ok"])

\* One turn of the loop over occupation vectors: the determinants, then the
\* numerator loop, then the denominator loop.
DerivRow(self, x_mats, occs) ==
    LET dets == Dets(x_mats, self, occs)
        ctx == [self |-> self, x_mats |-> x_mats, occs |-> occs, dets |-> dets,
                n_det_prod |-> ProdSeq(Take(dets, self.numerator)),
                d_det_prod |-> ProdSeq(Drop(dets, self.numerator))]
        start == [y_row |-> [q \in 1..(self.nparam - 1) |-> Zero],
                  visits |-> << >>,
                  ndets |-> self.nmatrices,
                  status |-> "ok"]
        after_num == RunLoop(ctx, NumeratorRange(self), FALSE, 1, start)
    IN  RunLoop(ctx, DenominatorRange(self), TRUE, 1, after_num)

\* The rows of the batch in order, until one raises.
RECURSIVE DerivRows(_, _, _, _, _)
DerivRows(self, x_mats, batch, k, acc) ==
    IF k > Len(batch) \/ acc.status # "ok" THEN acc
    ELSE LET row == DerivRow(self, x_mats, batch[k])
         IN  DerivRows(self, x_mats, batch, k + 1,
                 [status |-> row.status,
                  y |-> Append(acc.y, row.y_row),
                  visits |-> Append(acc.visits, row.visits),
                  ndets |-> acc.ndets + row.ndets])

ComputeOverlapDeriv(self, x, occs_array) ==
    LET entry == Entry(self, x, occs_array)
    IN  IF entry.status # "ok"
        THEN [status |-> entry.status, ovlp |-> << >>, y |-> << >>,
              visits |-> << >>, reshaped |-> entry.reshaped, ndets |-> 0]
        ELSE LET batch == Resolve(self, occs_array)
                 done == DerivRows(self, XMats(x, self), batch, 1,
                             [status |-> "ok", y |-> << >>, visits |-> << >>,
                              ndets |-> 0])
             IN  [status |-> done.status,
                  ovlp |-> << >>,
                  y |-> IF done.status = "ok" THEN done.y ELSE << >>,
                  visits |-> done.visits,
                  reshaped |-> entry.reshaped,
                  ndets |-> done.ndets]

-----------------------------------------------------------------------------
(* The engine and its callers *)

\* engine: the constructed DetRatio object.  pc: "idle", or "returned" when a
\* call has come back.  call: the operation and its arguments.  result: how
\* the call ended (status "ok" or the error raised), the overlap vector ovlp
\* of compute_overlap or the matrix y of compute_overlap_deriv (one row per
\* configuration), and a record of what the call did: whether x.reshape was
\* called, how many determinants were computed, and for each configuration
\* the loop iterations made (index i, matrix m, and whether it was the
\* denominator loop).

NoCall == [op |-> "none", x |-> << >>, occs_array |-> Str("")]

NoResult ==
    [status |-> "none", ovlp |-> << >>, y |-> << >>, visits |-> << >>,
     reshaped |-> FALSE, ndets |-> 0]

Init ==
    /\ engine \in Engines
    /\ pc = "idle"
    /\ call = NoCall
    /\ result = NoResult

\* A caller invokes compute_overlap(x, occs_array); the call runs to its
\* return or its raise.
CallComputeOverlap(x, occs_array) ==
    /\ pc = "idle"
    /\ pc' = "returned"
    /\ call' = [op |-> "compute_overlap", x |-> x, occs_array |-> occs_array]
    /\ result' = ComputeOverlap(engine, x, occs_array)
    /\ UNCHANGED engine

\* A caller invokes compute_overlap_deriv(x, occs_array).
CallComputeOverlapDeriv(x, occs_array) ==
    /\ pc = "idle"
    /\ pc' = "returned"
    /\ call' = [op |-> "compute_overlap_deriv", x |-> x,
                occs_array |-> occs_array]
    /\ result' = ComputeOverlapDeriv(engine, x, occs_array)
    /\ UNCHANGED engine

\* The caller takes the result (or the error); nothing of the call is kept.
Return ==
    /\ pc = "returned"
    /\ pc' = "idle"
    /\ call' = NoCall
    /\ result' = NoResult
    /\ UNCHANGED engine

Next ==
    \/ \E x \in ParamVectors(engine), occs_array \in OccsArrays(engine) :
            CallComputeOverlap(x, occs_array)
    \/ \E x \in ParamVectors(engine), occs_array \in OccsArrays(engine) :
            CallComputeOverlapDeriv(x, occs_array)
    \/ Return

Spec == Init /\ [][Next]_vars

-----------------------------------------------------------------------------
(* Vocabulary of the properties *)

Returned(op) == pc = "returned" /\ call.op = op

\* compute_overlap_deriv was called with a parameter vector of the
\* differentiable length and a valid occs_array.
ValidDerivCall ==
    /\ Returned("compute_overlap_deriv")
    /\ SelectorOk(call.occs_array)
    /\ Len(call.x) = engine.nparam - 1

\* ... and returned its matrix.
DerivReturned == ValidDerivCall /\ result.status = "ok"

Batch == Resolve(engine, call.occs_array)

Matrices == 0..(engine.nmatrices - 1)

Orbitals == 0..(engine.nbasis - 1)

Columns == 0..(engine.nocc_up - 1)

\* The output column of entry (r, c) of matrix m.
ColumnOf(m, r, c) ==
    m * engine.nbasis * engine.nocc_up + r * engine.nocc_up + c

\* The returned entry of configuration k (1-based) for entry (r, c) of matrix m.
EntryOf(k, m, r, c) == result.y[k][ColumnOf(m, r, c) + 1]

Occupied(k, r) == \E p \in 1..Len(Batch[k]) : Batch[k][p] = r

\* The position (from 0) of an occupied orbital within the configuration.
PositionOf(k, r) == (CHOOSE p \in 1..Len(Batch[k]) : Batch[k][p] = r) - 1

\* The determinant of matrix m restricted to the rows of configuration k.
RestrictedDet(k, m) ==
    Det(XMats(call.x, engine)[m], Batch[k], Arange(engine.nocc_up))

AllDetsNonzero(k) == \A m \in Matrices : RestrictedDet(k, m) # 0

\* d det_m / d A_m[r, c]: the cofactor of the deleted row and column.
Cofactor(k, m, r, c) ==
    (IF (PositionOf(k, r) + c) % 2 = 0 THEN 1 ELSE -1)
        * Det(XMats(call.x, engine)[m], Without(Batch[k], r),
              Without(Arange(engine.nocc_up), c))

RECURSIVE ProdOver(_, _)
ProdOver(S, k) ==
    IF S = {} THEN 1
    ELSE LET m == CHOOSE e \in S : TRUE
         IN  RestrictedDet(k, m) * ProdOver(S \ {m}, k)

NumeratorMatrices == {m \in Matrices : m < engine.numerator}

DenominatorMatrices == {m \in Matrices : m >= engine.numerator}

\* The matrices some iteration of a loop was made for, in configuration k.
Visited(k) == {result.visits[k][p].m : p \in 1..Len(result.visits[k])}

\* How many iterations were made for the index i in configuration k.
TimesVisited(k, i) ==
    Cardinality({p \in 1..Len(result.visits[k]) : result.visits[k][p].i = i})

-----------------------------------------------------------------------------
(* Properties *)

\* C1: for every engine (any split of an even number of matrices) and every
\* configuration k of the batch, compute_overlap_deriv makes exactly one loop
\* iteration for every output column i of every matrix m, entry (r, c), and
\* that iteration treats m as a numerator matrix iff m < numerator.
C1_EveryColumnOnce ==
    ValidDerivCall =>
        \A k \in 1..Len(Batch) :
            /\ k <= Len(result.visits)
            /\ \A m \in Matrices, r \in Orbitals, c \in Columns :
                    /\ TimesVisited(k, ColumnOf(m, r, c)) = 1
                    /\ \A p \in 1..Len(result.visits[k]) :
                            result.visits[k][p].i = ColumnOf(m, r, c)
                                => result.visits[k][p].den
                                       = (m >= engine.numerator)

\* C2: with a parameter vector of the differentiable length,
\* compute_overlap_deriv returns for every valid occs_array; the only error
\* it produces is the invalid-selector error, and no iteration is made for a
\* matrix number >= numerator + denominator or a column >= nparam - 1.
C2_DerivNeverRaises ==
    (Returned("compute_overlap_deriv") /\ Len(call.x) = engine.nparam - 1) =>
        /\ result.status \in {"ok", "InvalidSelector"}
        /\ SelectorOk(call.occs_array) => result.status = "ok"
        /\ \A k \in 1..Len(result.visits) :
                \A p \in 1..Len(result.visits[k]) :
                    /\ result.visits[k][p].m < engine.nmatrices
                    /\ result.visits[k][p].i < engine.nparam - 1

\* C3: with numerator = denominator = 1 and nocc = 1, for a configuration
\* whose sole occupied index is r, the entry for the numerator matrix entry
\* (r, 0) is 1 / denominator_value and the entry for the denominator matrix
\* entry (r, 0) is -numerator_value / denominator_value^2.
C3_DegenerateQuotient ==
    (DerivReturned /\ engine.numerator = 1 /\ engine.denominator = 1
        /\ engine.nocc_up = 1) =>
        \A k \in 1..Len(Batch) :
            LET r == Batch[k][1]
                numerator_value == XMats(call.x, engine)[0][r][0]
                denominator_value == XMats(call.x, engine)[1][r][0]
            IN  denominator_value # 0 =>
                    /\ EntryOf(k, 0, r, 0) = Frac(1, denominator_value)
                    /\ EntryOf(k, 1, r, 0)
                           = Frac(-numerator_value,
                                  denominator_value * denominator_value)

\* C4: compute_overlap_deriv returns a (batch size) x (nparam - 1) matrix, and
\* an entry of row k is non-finite only if some denominator matrix has a zero
\* determinant on the rows of configuration k (a zero numerator determinant
\* alone does not make an entry non-finite).
C4_FiniteUnlessDenominatorZero ==
    DerivReturned =>
        /\ Len(result.y) = Len(Batch)
        /\ \A k \in 1..Len(Batch) :
                /\ Len(result.y[k]) = engine.nparam - 1
                /\ (\E q \in 1..Len(result.y[k]) : ~Finite(result.y[k][q]))
                       => \E m \in DenominatorMatrices : RestrictedDet(k, m) = 0

\* C9: when nocc = 1, for every matrix (numerator or denominator) and the
\* entry (r, 0) with r the sole occupied index, the entry is exactly 1.0.
C9_EmptyMinorIsOne ==
    (DerivReturned /\ engine.nocc_up = 1) =>
        \A k \in 1..Len(Batch), m \in Matrices :
            EntryOf(k, m, Batch[k][1], 0) = One

\* C5 as stated: compute_overlap accepts a parameter vector of length nparam
\* (x followed by an energy entry e) and returns what it returns for x.
C5_AcceptsEnergyEntry ==
    (Returned("compute_overlap") /\ SelectorOk(call.occs_array)
        /\ Len(call.x) = engine.nparam) =>
        /\ result.status = "ok"
        /\ result.ovlp
               = ComputeOverlap(engine, Take(call.x, engine.nparam - 1),
                                call.occs_array).ovlp

\* C5, amended: compute_overlap accepts a parameter vector of length
\* nparam - 1 only.  For every x of that length and every valid occs_array it
\* returns one value per configuration; for x followed by an energy entry
\* (length nparam) the reshape fails and the call raises, returning nothing.
C5_OnlyDifferentiableLength ==
    (Returned("compute_overlap") /\ SelectorOk(call.occs_array)) =>
        /\ Len(call.x) = engine.nparam - 1 =>
                result.status = "ok" /\ Len(result.ovlp) = Len(Batch)
        /\ Len(call.x) = engine.nparam =>
                result.status = "ReshapeError" /\ result.ovlp = << >>

C5_Witness ==
    /\ Returned("compute_overlap")
    /\ SelectorOk(call.occs_array)
    /\ Len(call.x) = engine.nparam
    /\ engine.nmatrices > 0
    /\ Len(Batch) > 0
    /\ result.status = "ReshapeError"

\* C6: for both operations, an occs_array that is neither an index array nor
\* "P" / "S" raises the invalid-selector error at call entry: before the
\* parameter vector is reshaped (so also when the reshape would fail) and
\* before any determinant is computed; the engine is left unchanged.
C6_InvalidSelectorFirst ==
    [][(pc' = "returned" /\ ~SelectorOk(call'.occs_array)) =>
            /\ call'.op \in {"compute_overlap", "compute_overlap_deriv"}
            /\ result'.status = "InvalidSelector"
            /\ ~result'.reshaped
            /\ result'.ndets = 0
            /\ result'.ovlp = << >>
            /\ result'.y = << >>
            /\ engine' = engine]_vars

C6_Witness ==
    /\ Returned("compute_overlap_deriv")
    /\ call.occs_array = Str("Q")
    /\ ~ReshapeOk(call.x, engine)
    /\ result.status = "InvalidSelector"

\* The case C7 and C8 are about: entry (r, c) of matrix m in configuration k,
\* with r occupied, nocc >= 2 and every restricted determinant nonzero.
MinorCase(k, r) ==
    engine.nocc_up >= 2 /\ Occupied(k, r) /\ AllDetsNonzero(k)

C8_NumeratorEntry ==
    DerivReturned =>
        \A k \in 1..Len(Batch), m \in NumeratorMatrices,
           r \in Orbitals, c \in Columns :
            MinorCase(k, r) =>
                EntryOf(k, m, r, c)
                    = Frac(Cofactor(k, m, r, c)
                               * ProdOver(NumeratorMatrices \ {m}, k),
                           ProdOver(DenominatorMatrices, k))

\* Two numerator matrices and a nonzero entry in an odd column.
C8_Witness ==
    /\ DerivReturned
    /\ engine.numerator >= 2
    /\ \E k \in 1..Len(Batch), m \in NumeratorMatrices, r \in Orbitals :
            /\ MinorCase(k, r)
            /\ EntryOf(k, m, r, 1) # Zero
            /\ ProdOver(NumeratorMatrices \ {m}, k) # 1

\* C10: for every configuration, every matrix m the loops make an iteration
\* for and every entry (r, c) whose row r is not occupied, the entry in column
\* m * nbasis * nocc + r * nocc + c is exactly zero, for every nocc >= 1.
C10_UnoccupiedRowIsZero ==
    DerivReturned =>
        \A k \in 1..Len(Batch), m \in Matrices, r \in Orbitals, c \in Columns :
            (m \in Visited(k) /\ ~Occupied(k, r)) => EntryOf(k, m, r, c) = Zero

\* An unoccupied row with nocc = 1, in a row that holds a stored entry.
C10_Witness ==
    /\ DerivReturned
    /\ engine.nocc_up = 1
    /\ \E k \in 1..Len(Batch), m \in Matrices, r \in Orbitals :
            /\ m \in Visited(k)
            /\ ~Occupied(k, r)
            /\ EntryOf(k, m, r, 0) = Zero
            /\ EntryOf(k, m, Batch[k][1], 0) = One

=============================================================================
